---- MODULE Spec2Model ----
(***************************************************************************)
(* Vector<T> of src/src/datastruct/vec_struct.rs: a ring-buffered growable *)
(* array with push_back, pop_front, pop_back, get, indexing and queries.   *)
(* Option<T> is modelled as a sequence: None is <<>>, Some(v) is <<v>>.    *)
(* A block of memory is a sequence of slots; slot i is at position i + 1.  *)
(***************************************************************************)
EXTENDS Integers, Sequences, FiniteSets, TLC

\* ---------------------------------------------------------------- bounds
\* push_back is not called once length has reached MaxLen.
MaxLen == 5
\* In SpecGrow push_back is not called once length has reached MaxPush.
MaxPush == 9
\* usize is modelled UsizeBits wide.
UsizeBits == 16
\* In SpecPlat usize is PlatBits wide and size_of::<T>() is 0..MaxSize.
PlatBits == 4
MaxSize == 3

\* The elements pushed (T is a non-zero-sized type such as char or isize).
Values == {1, 2}

\* Content of a slot of a freshly allocated block (never written).
Uninit == 0

None == <<>>
Some(v) == <<v>>
IsSome(o) == o # None
Unwrap(o) == o[1]

VARIABLES
    pointer,    \* 0 is the null pointer, n > 0 the n-th block allocated
    front,      \* Option<usize>
    back,       \* Option<usize>
    length,     \* usize
    capacity,   \* usize
    mem,        \* contents of the block `pointer` points to
    heap,       \* the allocator: blocks live, blocks freed, invalid frees
    plat,       \* the build: width of usize, size_of::<T>(), overflow checks
    grow,       \* a growth in progress, when push_back is followed step by step
    abs,        \* the abstract sequence the container stands for
    last,       \* the last operation: its name, argument, result and pre-state
    pushes,     \* push_back calls since new(), NoCount once a pop was called
    fifo,       \* pushes on an empty container, then pops from one end only
    drain       \* pops from one end until empty, then a push_back

prog == <<pointer, front, back, length, capacity, mem>>
hist == <<abs, pushes, fifo, drain>>
vars == <<pointer, front, back, length, capacity, mem, heap, plat, grow, abs, last,
          pushes, fifo, drain>>

\* ------------------------------------------------------------ allocation
\* alloc::alloc(layout) for n slots: a block of n slots nothing has written.
Alloc(n) == [i \in 1..n |-> Uninit]

\* The allocator before any request.
NoHeap == [live |-> {}, freed |-> {}, bad |-> {}]

\* alloc::alloc returning block p.
heap_alloc(h, p) == [h EXCEPT !.live = @ \cup {p}]

\* alloc::dealloc(p, layout): p must be a block that is currently allocated;
\* a null pointer (0), a block never allocated or one already freed is an
\* invalid free, recorded in bad.
heap_dealloc(h, p) ==
    IF p \in h.live
    THEN [h EXCEPT !.live = @ \ {p}, !.freed = @ \cup {p}]
    ELSE [h EXCEPT !.bad = @ \cup {p}]

\* ptr.add(i).write(v)
Write(block, i, v) == [block EXCEPT ![i + 1] = v]

\* ptr.add(i).read()
Read(block, i) == block[i + 1]

\* ptr::copy_nonoverlapping(src.offset(so), dst.offset(do), count)
copy_nonoverlapping(src, so, dst, do, count) ==
    [i \in 1..Len(dst) |->
        IF i - 1 >= do /\ i - 1 < do + count
        THEN src[(i - 1 - do) + so + 1]
        ELSE dst[i]]

\* ------------------------------------------------------------- push_back
\* The first allocation: 4 slots.
vec_capacity == 4

\* Mutant: the branch that pushes without growing also takes a full block.
has_room_full(len0, cap) == len0 <= cap

\* Mutant: the branch that pushes without growing is left one element early.
has_room_early(len0, cap) == len0 + 1 < cap

\* The test of the branch that pushes without growing.
has_room(len0, cap) == len0 < cap

\* Mutant: the next element overwrites the slot of back.
next_index_overwrite(bk, cap) == IF IsSome(bk) THEN Unwrap(bk) ELSE 0

\* The slot the next element is written to when length < capacity.
next_index(bk, cap) ==
    IF IsSome(bk)
    THEN LET n == Unwrap(bk) + 1
         IN  IF n < cap THEN n ELSE n % cap
    ELSE 0

\* Mutant: the block grows by the first allocation's size, not by doubling.
checked_mul_linear(a, b) == Some(a + vec_capacity)

\* usize::MAX and isize::MAX of the build.
UsizeMax == 2 ^ plat.bits - 1
IsizeMax == 2 ^ (plat.bits - 1) - 1

\* usize::checked_mul for the doubling of the capacity.
checked_mul(a, b) == IF a * b <= UsizeMax THEN Some(a * b) ELSE None

\* a * b on usize: with overflow checks (debug builds) an overflow panics,
\* without them (release builds) the product wraps.
usize_mul(a, b) ==
    [val |-> (a * b) % (UsizeMax + 1),
     exact |-> a * b,
     panic |-> plat.debug /\ a * b > UsizeMax]

\* Layout::from_size_align_unchecked(bytes, align) followed by alloc::alloc:
\* the size must not exceed isize::MAX (size_of::<T>() is a multiple of the
\* alignment, so rounding up to it adds nothing) and must not be 0. A product
\* that wrapped asks for a block too small for the slots written to it.
valid_request(sz) == sz.val = sz.exact /\ sz.val > 0 /\ sz.val <= IsizeMax

\* What a request can do: a valid one returns the block (FALSE); an invalid
\* one is undefined behaviour, the program crashes (TRUE) or goes on as if the
\* block were good (FALSE).
Crashes(sz) == IF valid_request(sz) THEN {FALSE} ELSE BOOLEAN

\* Mutant: zero-sized types are not rejected.
is_zst_never(size) == FALSE

\* The test push_back makes first: size_of::<T>() == 0.
is_zst(size) == size = 0

\* Mutant: the growth copies the old block as it lies, wrapped or not.
relinearize_flat(old, fr, cap, raw) == copy_nonoverlapping(old, 0, raw, 0, cap)

\* The growth branch's copy of the old block into the new one.
relinearize(old, fr, cap, raw) ==
    IF fr = 0
    THEN copy_nonoverlapping(old, 0, raw, 0, cap)
    ELSE LET part_size == cap - fr
             first == copy_nonoverlapping(old, fr, raw, 0, part_size)
         IN  copy_nonoverlapping(old, 0, first, part_size, cap - part_size)

\* ------------------------------------------------------------ observers
Pops == {"pop_front", "pop_back"}

\* The record of an operation: what was called, with what, what it returned,
\* the state it was called in, the allocator calls it made and the slot it
\* wrote; bytes is the size it asked the allocator for, wanted the size the
\* slots need, crash whether the request brought the program down, rslot the
\* slot a pop read its element from.
\* A pop_back called right after a push_back also keeps that push.
Op(name, arg, ret, panic, allocs, frees, wslot) ==
    [op |-> name, x |-> arg, ret |-> ret, panic |-> panic,
     len0 |-> length, cap0 |-> capacity, front0 |-> front, back0 |-> back,
     allocs |-> allocs, frees |-> frees, wslot |-> wslot,
     bytes |-> None, wanted |-> None, crash |-> FALSE, rslot |-> None,
     after |-> IF name = "pop_back" /\ last.op = "push_back" /\ ~last.panic
               THEN Some([x |-> last.x, len0 |-> last.len0, cap0 |-> last.cap0])
               ELSE None]

NoOp ==
    [op |-> "new", x |-> None, ret |-> None, panic |-> FALSE,
     len0 |-> 0, cap0 |-> 0, front0 |-> None, back0 |-> None,
     allocs |-> 0, frees |-> 0, wslot |-> None,
     bytes |-> None, wanted |-> None, crash |-> FALSE, rslot |-> None,
     after |-> None]

\* The abstract sequence: push_back appends, pop_front drops the first
\* element, pop_back the last.
AbsNext(a, l) ==
    IF l.op = "push_back"
    THEN (IF l.panic \/ l.crash THEN a ELSE Append(a, Unwrap(l.x)))
    ELSE IF l.op = "pop_front" THEN (IF a = <<>> THEN a ELSE Tail(a))
    ELSE IF l.op = "pop_back" THEN (IF a = <<>> THEN a ELSE SubSeq(a, 1, Len(a) - 1))
    ELSE a

\* Some(n) after n push_back calls and no pop since new(), None after a pop
\* or a push_back that failed.
PushesNext(p, l) ==
    IF l.op = "push_back"
    THEN (IF IsSome(p) /\ ~l.panic /\ ~l.crash THEN Some(Unwrap(p) + 1) ELSE None)
    ELSE IF l.op \in Pops THEN None
    ELSE p

\* phase "push": only push_back calls since the container was last empty,
\* pushed holds their arguments. phase "pop_front" ("pop_back"): those pushes
\* were followed by calls of that pop only, rets holds what they returned, up
\* to one call more than there were pushes. A query ends a pop phase, a
\* push_back that failed ends any phase.
FifoOff == [phase |-> "off", pushed |-> <<>>, rets |-> <<>>]

FifoNext(f, l) ==
    IF l.op = "push_back"
    THEN IF l.panic \/ l.crash
         THEN FifoOff
         ELSE IF l.len0 = 0
         THEN [phase |-> "push", pushed |-> <<Unwrap(l.x)>>, rets |-> <<>>]
         ELSE IF f.phase = "push"
         THEN [f EXCEPT !.pushed = Append(@, Unwrap(l.x))]
         ELSE FifoOff
    ELSE IF l.op \in Pops
    THEN IF f.phase = "push"
         THEN [phase |-> l.op, pushed |-> f.pushed, rets |-> <<l.ret>>]
         ELSE IF f.phase = l.op /\ Len(f.rets) <= Len(f.pushed)
         THEN [f EXCEPT !.rets = Append(@, l.ret)]
         ELSE IF l.len0 = 0
         THEN [phase |-> l.op, pushed |-> <<>>, rets |-> <<l.ret>>]
         ELSE FifoOff
    ELSE IF f.phase = "push" THEN f ELSE FifoOff

\* stage "draining": a run of calls of one pop (kind) on a non-empty
\* container, cap0 the capacity before the first of them. "drained": the run
\* brought length to 0; extra is what a further call of that pop returned.
\* "refilled": the drain was followed by push_back(x), which made `allocs`
\* allocation requests and wrote slot wslot. reread: the pop called on the
\* refilled container and what it returned. Any other call ends the run.
DrainIdle ==
    [stage |-> "idle", kind |-> "none", cap0 |-> 0, extra |-> None, x |-> None,
     allocs |-> 0, wslot |-> None, reread |-> None]

DrainNext(d, l, len1) ==
    IF l.op \in Pops
    THEN IF l.len0 > 0
         THEN LET cont == d.stage = "draining" /\ d.kind = l.op
              IN  [stage |-> IF len1 = 0 THEN "drained" ELSE "draining",
                   kind |-> l.op,
                   cap0 |-> IF cont THEN d.cap0 ELSE l.cap0,
                   extra |-> None, x |-> None, allocs |-> 0, wslot |-> None,
                   reread |-> IF d.stage = "refilled"
                              THEN Some([kind |-> d.kind, cap0 |-> d.cap0, x |-> d.x,
                                         extra |-> d.extra, op |-> l.op,
                                         ret |-> l.ret])
                              ELSE None]
         ELSE IF d.stage = "drained" /\ d.kind = l.op
         THEN [d EXCEPT !.extra = Some(l.ret), !.reread = None]
         ELSE DrainIdle
    ELSE IF l.op = "push_back"
    THEN IF d.stage = "drained" /\ ~l.panic /\ ~l.crash
         THEN [d EXCEPT !.stage = "refilled", !.x = l.x, !.allocs = l.allocs,
                        !.wslot = l.wslot, !.reread = None]
         ELSE DrainIdle
    ELSE DrainIdle

Observe ==
    /\ abs' = AbsNext(abs, last')
    /\ pushes' = PushesNext(pushes, last')
    /\ fifo' = FifoNext(fifo, last')
    /\ drain' = DrainNext(drain, last', length')

\* ------------------------------------------------------------- push_back
\* push_back stopped before it changed anything: a panic, or a crash.
Failed(element, panic, sz, crash) ==
    /\ UNCHANGED <<prog, heap>>
    /\ last' = [Op("push_back", Some(element), None, panic,
                    IF crash THEN 1 ELSE 0, 0, None)
                 EXCEPT !.bytes = IF crash THEN Some(sz.val) ELSE None,
                        !.wanted = IF crash THEN Some(sz.exact) ELSE None,
                        !.crash = crash]

push_back(element) ==
    /\ IF is_zst(plat.size)
       THEN Failed(element, TRUE, None, FALSE)
       ELSE IF pointer = 0
       THEN LET vec_size == usize_mul(plat.size, vec_capacity)
            IN  IF vec_size.panic
                THEN Failed(element, TRUE, None, FALSE)
                ELSE \E crash \in Crashes(vec_size) :
                        IF crash
                        THEN Failed(element, FALSE, vec_size, TRUE)
                        ELSE /\ heap' = heap_alloc(heap, pointer + 1)
                             /\ mem' = Write(Alloc(vec_capacity), 0, element)
                             /\ pointer' = pointer + 1
                             /\ front' = Some(0)
                             /\ back' = Some(0)
                             /\ length' = length + 1
                             /\ capacity' = vec_capacity
                             /\ last' = [Op("push_back", Some(element), None, FALSE,
                                             1, 0, Some(0))
                                          EXCEPT !.bytes = Some(vec_size.val),
                                                 !.wanted = Some(vec_size.exact)]
       ELSE IF has_room(length, capacity)
       THEN LET ni == next_index(back, capacity)
            IN  /\ mem' = Write(mem, ni, element)
                /\ front' = IF front = None THEN Some(0) ELSE front
                /\ back' = Some(ni)
                /\ length' = length + 1
                /\ UNCHANGED <<pointer, capacity, heap>>
                /\ last' = Op("push_back", Some(element), None, FALSE, 0, 0, Some(ni))
       ELSE LET nc == checked_mul(capacity, 2)
            IN  IF IsSome(nc)
                THEN IF IsSome(front)
                     THEN LET new_capacity == Unwrap(nc)
                              old_vec_size == usize_mul(plat.size, capacity)
                              new_vec_size == usize_mul(plat.size, new_capacity)
                              raw == relinearize(mem, Unwrap(front), capacity,
                                                 Alloc(new_capacity))
                          IN  IF old_vec_size.panic \/ new_vec_size.panic
                              THEN Failed(element, TRUE, None, FALSE)
                              ELSE \E crash \in Crashes(new_vec_size) :
                                      IF crash
                                      THEN Failed(element, FALSE, new_vec_size, TRUE)
                                      ELSE /\ heap' = heap_dealloc(
                                                          heap_alloc(heap, pointer + 1),
                                                          pointer)
                                           /\ mem' = Write(raw, length, element)
                                           /\ pointer' = pointer + 1
                                           /\ front' = Some(0)
                                           /\ back' = Some(length)
                                           /\ length' = length + 1
                                           /\ capacity' = new_capacity
                                           /\ last' = [Op("push_back", Some(element),
                                                           None, FALSE, 1, 1,
                                                           Some(length))
                                                        EXCEPT
                                                          !.bytes = Some(new_vec_size.val),
                                                          !.wanted = Some(new_vec_size.exact)]
                     ELSE /\ UNCHANGED <<prog, heap>>
                          /\ last' = Op("push_back", Some(element), None, FALSE,
                                        0, 0, None)
                ELSE Failed(element, TRUE, None, FALSE)
    /\ UNCHANGED <<plat, grow>>
    /\ Observe

\* ------------------------------------------- push_back, growing, by steps
\* No growth in progress. Otherwise pc is the number of steps taken, x the
\* element being pushed, raw the new block, stale whether the old block was
\* read after it had been freed.
GrowIdle == [pc |-> 0, x |-> None, raw |-> <<>>, stale |-> FALSE]

\* Mutant: the old block is freed as soon as the new one is there.
growth_steps_free_first == <<"alloc", "dealloc", "copy", "write", "update">>

\* The statements of the growth branch, in program order.
growth_steps == <<"alloc", "copy", "write", "dealloc", "update">>

\* The statement the growth in progress executes next.
at(step) == grow.pc < Len(growth_steps) /\ growth_steps[grow.pc + 1] = step

\* push_back(element) enters the growth branch and requests the new block.
\* (The requests that are undefined behaviour are followed in push_back.)
GrowAlloc(element) ==
    /\ grow.pc = 0
    /\ at("alloc")
    /\ ~is_zst(plat.size)
    /\ pointer # 0
    /\ ~has_room(length, capacity)
    /\ IsSome(checked_mul(capacity, 2))
    /\ IsSome(front)
    /\ LET new_capacity == Unwrap(checked_mul(capacity, 2))
           old_vec_size == usize_mul(plat.size, capacity)
           new_vec_size == usize_mul(plat.size, new_capacity)
       IN  /\ ~old_vec_size.panic
           /\ ~new_vec_size.panic
           /\ valid_request(new_vec_size)
           /\ heap' = heap_alloc(heap, pointer + 1)
           /\ grow' = [pc |-> 1, x |-> Some(element), raw |-> Alloc(new_capacity),
                       stale |-> FALSE]
    /\ UNCHANGED <<prog, plat, last, hist>>

\* The copies of the old block into the new one.
GrowCopy ==
    /\ grow.pc > 0
    /\ at("copy")
    /\ grow' = [grow EXCEPT !.pc = @ + 1,
                            !.raw = relinearize(mem, Unwrap(front), capacity, @),
                            !.stale = pointer \notin heap.live]
    /\ UNCHANGED <<prog, heap, plat, last, hist>>

\* raw_ptr.add(self.length).write(element)
GrowWrite ==
    /\ grow.pc > 0
    /\ at("write")
    /\ grow' = [grow EXCEPT !.pc = @ + 1, !.raw = Write(@, length, Unwrap(grow.x))]
    /\ UNCHANGED <<prog, heap, plat, last, hist>>

\* alloc::dealloc of the old block.
GrowFree ==
    /\ grow.pc > 0
    /\ at("dealloc")
    /\ heap' = heap_dealloc(heap, pointer)
    /\ grow' = [grow EXCEPT !.pc = @ + 1]
    /\ UNCHANGED <<prog, plat, last, hist>>

\* The assignments to the fields, after the unsafe block.
GrowUpdate ==
    /\ grow.pc > 0
    /\ at("update")
    /\ pointer' = pointer + 1
    /\ mem' = grow.raw
    /\ front' = Some(0)
    /\ back' = Some(length)
    /\ length' = length + 1
    /\ capacity' = Len(grow.raw)
    /\ grow' = GrowIdle
    /\ last' = [Op("push_back", grow.x, None, FALSE, 1, 1, Some(length))
                 EXCEPT !.bytes = Some(plat.size * Len(grow.raw)),
                        !.wanted = Some(plat.size * Len(grow.raw))]
    /\ UNCHANGED <<heap, plat>>
    /\ Observe

\* ------------------------------------------------------------- pop_front
\* Mutant: the pops test the pointer but not the length.
has_items_nolength(ptr, len0) == ptr # 0

\* The test both pops make before they read: allocated and not empty.
has_items(ptr, len0) == ptr # 0 /\ len0 > 0

\* Mutant: pop_front reads after advancing the cursor.
pop_front_item_late(block, front_ixd) == Read(block, (front_ixd + 1) % Len(block))

\* The element pop_front returns.
pop_front_item(block, front_ixd) == Read(block, front_ixd)

\* Mutant: front stops at the last slot instead of wrapping to 0.
pop_front_cursor_nowrap(front_ixd, cap) ==
    IF front_ixd + 1 < cap THEN Some(front_ixd + 1) ELSE Some(front_ixd)

\* Mutant: pop_front forgets to advance front.
pop_front_cursor_stuck(front_ixd, cap) == Some(front_ixd)

\* front after a pop_front that read slot front_ixd.
pop_front_cursor(front_ixd, cap) == Some((front_ixd + 1) % cap)

pop_front ==
    /\ IF has_items(pointer, length)
       THEN IF IsSome(front)
            THEN LET front_ixd == Unwrap(front)
                     item == pop_front_item(mem, front_ixd)
                 IN  /\ front' = pop_front_cursor(front_ixd, capacity)
                     /\ length' = length - 1
                     /\ UNCHANGED <<pointer, back, capacity, mem>>
                     /\ last' = [Op("pop_front", None, Some(item), FALSE, 0, 0, None)
                                  EXCEPT !.rslot = Some(front_ixd)]
            ELSE /\ UNCHANGED prog
                 /\ last' = Op("pop_front", None, None, FALSE, 0, 0, None)
       ELSE /\ UNCHANGED prog
            /\ last' = Op("pop_front", None, None, FALSE, 0, 0, None)
    /\ UNCHANGED <<heap, plat, grow>>
    /\ Observe

\* -------------------------------------------------------------- pop_back
\* Mutant: pop_back forgets to move back.
pop_back_cursor_stuck(back_ixd, cap) == Some(back_ixd)

\* Mutant: back stops at 0 instead of wrapping to capacity - 1.
pop_back_cursor_nowrap(back_ixd, cap) ==
    IF back_ixd > 0 THEN Some(back_ixd - 1) ELSE Some(0)

\* back after a pop_back that read slot back_ixd, before the reset on empty.
pop_back_cursor(back_ixd, cap) ==
    IF back_ixd > 0 THEN Some(back_ixd - 1) ELSE Some(cap - 1)

\* Mutant: pop_back reads after moving the cursor.
pop_back_item_late(block, back_ixd) ==
    Read(block, Unwrap(pop_back_cursor(back_ixd, Len(block))))

\* The element pop_back returns.
pop_back_item(block, back_ixd) == Read(block, back_ixd)

\* Mutant: on empty, pop_back resets front but not back.
pop_back_reset_front_only(fr, bk, len1) ==
    IF len1 = 0 THEN <<None, bk>> ELSE <<fr, bk>>

\* front and back once pop_back has decremented length to len1.
pop_back_reset(fr, bk, len1) ==
    IF len1 = 0 THEN <<None, None>> ELSE <<fr, bk>>

pop_back ==
    /\ IF has_items(pointer, length)
       THEN IF IsSome(back)
            THEN LET back_ixd == Unwrap(back)
                     item == pop_back_item(mem, back_ixd)
                     cursors == pop_back_reset(front,
                                               pop_back_cursor(back_ixd, capacity),
                                               length - 1)
                 IN  /\ length' = length - 1
                     /\ front' = cursors[1]
                     /\ back' = cursors[2]
                     /\ UNCHANGED <<pointer, capacity, mem>>
                     /\ last' = [Op("pop_back", None, Some(item), FALSE, 0, 0, None)
                                  EXCEPT !.rslot = Some(back_ixd)]
            ELSE /\ UNCHANGED prog
                 /\ last' = Op("pop_back", None, None, FALSE, 0, 0, None)
       ELSE /\ UNCHANGED prog
            /\ last' = Op("pop_back", None, None, FALSE, 0, 0, None)
    /\ UNCHANGED <<heap, plat, grow>>
    /\ Observe

\* ------------------------------------------------------------------- get
\* Mutant: the lookup forgets the offset of front.
get_slot_nofront(front_ixd, index, cap) == index % cap

\* The physical slot of logical position index.
get_slot(front_ixd, index, cap) == (front_ixd + index) % cap

\* Mutant: the range test admits index = length.
in_bounds_inclusive(index, len0) == index <= len0

\* The range test of get.
in_bounds(index, len0) == index < len0

get(index) ==
    IF pointer # 0 /\ length > 0 /\ in_bounds(index, length)
    THEN IF IsSome(front)
         THEN Some(Read(mem, get_slot(Unwrap(front), index, capacity)))
         ELSE None
    ELSE None

Get(index) ==
    /\ last' = Op("get", Some(index), get(index), FALSE, 0, 0, None)
    /\ UNCHANGED prog
    /\ UNCHANGED <<heap, plat, grow>>
    /\ Observe

\* Index::index: get(index).expect("Out of bounds access")
index(i) == [ret |-> get(i), panic |-> get(i) = None]

Index(i) ==
    /\ last' = Op("index", Some(i), index(i).ret, index(i).panic, 0, 0, None)
    /\ UNCHANGED prog
    /\ UNCHANGED <<heap, plat, grow>>
    /\ Observe

\* --------------------------------------------------------------- queries
len == length

is_empty == length = 0

Len_ ==
    /\ last' = Op("len", None, Some(len), FALSE, 0, 0, None)
    /\ UNCHANGED prog
    /\ UNCHANGED <<heap, plat, grow>>
    /\ Observe

Capacity ==
    /\ last' = Op("capacity", None, Some(capacity), FALSE, 0, 0, None)
    /\ UNCHANGED prog
    /\ UNCHANGED <<heap, plat, grow>>
    /\ Observe

IsEmpty ==
    /\ last' = Op("is_empty", None, Some(is_empty), FALSE, 0, 0, None)
    /\ UNCHANGED prog
    /\ UNCHANGED <<heap, plat, grow>>
    /\ Observe

\* ------------------------------------------------------------- rendering
\* A rendering is the sequence of the pieces pushed to the output string.
LEFT == "⎩"
PHI == "▅"
RIGHT == "⎭"

\* format!("{}", x) and format!("{:?}", x) of an element: what T's Display
\* and T's Debug print for x (for char, A and 'A').
fmt(how, x) == <<how, x>>

\* Mutant: the walk over the live slots stays on the first one.
cell_next_stuck(offset, cap) == offset

\* The step of the walk over the live slots.
cell_next(offset, cap) == (offset + 1) % cap

\* The first loop of prety_print and vec_debug: total_index live cells from
\* slot offset on.
RECURSIVE live_cells(_, _, _)
live_cells(how, offset, total_index) ==
    IF total_index > 0
    THEN <<LEFT, fmt(how, Read(mem, offset)), RIGHT>>
         \o live_cells(how, cell_next(offset, capacity), total_index - 1)
    ELSE <<>>

\* Their second loop: total_offset placeholder cells.
RECURSIVE phi_cells(_)
phi_cells(total_offset) ==
    IF total_offset > 0
    THEN <<LEFT, PHI, RIGHT>> \o phi_cells(total_offset - 1)
    ELSE <<>>

prety_print ==
    IF IsSome(front)
    THEN live_cells("{}", Unwrap(front), length) \o phi_cells(capacity - length)
    ELSE phi_cells(capacity)

vec_debug ==
    <<"Length = ", length, " Capacity = ", capacity, " -> ">>
    \o (IF IsSome(front)
        THEN live_cells("{:?}", Unwrap(front), length) \o phi_cells(capacity - length)
        ELSE phi_cells(capacity))

\* Display::fmt
display_fmt == IF pointer # 0 THEN prety_print ELSE <<PHI>>

\* Debug::fmt
debug_fmt == IF pointer # 0 THEN vec_debug ELSE <<PHI>>

Display ==
    /\ last' = Op("display", None, Some(display_fmt), FALSE, 0, 0, None)
    /\ UNCHANGED <<prog, heap, plat, grow>>
    /\ Observe

Debug ==
    /\ last' = Op("debug", None, Some(debug_fmt), FALSE, 0, 0, None)
    /\ UNCHANGED <<prog, heap, plat, grow>>
    /\ Observe

\* ------------------------------------------------------------------ drop
\* deallocate_memory, all that Drop::drop does: the block is handed to
\* alloc::dealloc whether or not there is one. An invalid free is undefined
\* behaviour: the program crashes or goes on.
deallocate_memory ==
    LET vec_size == usize_mul(plat.size, capacity)
    IN  IF vec_size.panic
        THEN /\ UNCHANGED heap
             /\ last' = Op("drop", None, None, TRUE, 0, 0, None)
        ELSE \E crash \in (IF pointer \in heap.live THEN {FALSE} ELSE BOOLEAN) :
                /\ heap' = heap_dealloc(heap, pointer)
                /\ last' = [Op("drop", None, None, FALSE, 0, 1, None)
                             EXCEPT !.crash = crash]

Drop ==
    /\ deallocate_memory
    /\ UNCHANGED <<prog, plat, grow>>
    /\ Observe

\* ------------------------------------------------------------------ Spec
\* size_of::<T>() of the element type of Spec (char).
ElemSize == 4

\* The build of Spec: within its bounds no product overflows, so builds with
\* and without overflow checks behave alike.
HostPlat == [bits |-> UsizeBits, size |-> ElemSize, debug |-> TRUE]

\* Vector::new()
new ==
    /\ pointer = 0
    /\ front = None
    /\ back = None
    /\ length = 0
    /\ capacity = 0
    /\ mem = <<>>
    /\ heap = NoHeap
    /\ grow = GrowIdle
    /\ abs = <<>>
    /\ last = NoOp
    /\ pushes = Some(0)
    /\ fifo = [phase |-> "push", pushed |-> <<>>, rets |-> <<>>]
    /\ drain = DrainIdle

Init == new /\ plat = HostPlat

PushBack == \E x \in Values : length < MaxLen /\ push_back(x)
PopFront == pop_front
PopBack == pop_back
GetAny == \E i \in 0..length : Get(i)
IndexAny == \E i \in 0..length : Index(i)

Next ==
    \/ PushBack
    \/ PopFront
    \/ PopBack
    \/ GetAny
    \/ IndexAny
    \/ Len_
    \/ Capacity
    \/ IsEmpty

Spec == Init /\ [][Next]_vars

\* Only push_back is called, up to MaxPush times: the growth of a container
\* that is never popped.
PushOnly == \E x \in Values : length < MaxPush /\ push_back(x)

SpecGrow == Init /\ [][PushOnly]_vars

\* The life of a container: new(), then push_back, pop_front and pop_back in
\* any order, then drop, after which nothing is called.
NextLife ==
    \/ last.op # "drop" /\ PushBack
    \/ last.op # "drop" /\ PopFront
    \/ last.op # "drop" /\ PopBack
    \/ last.op # "drop" /\ Drop

SpecLife == Init /\ [][NextLife]_vars

\* push_back, pop_front and pop_back in any order, the container rendered
\* at any point.
NextShow ==
    \/ PushBack
    \/ PopFront
    \/ PopBack
    \/ Display
    \/ Debug

SpecShow == Init /\ [][NextShow]_vars

\* push_back, pop_front and pop_back in any order, a push_back that grows
\* the block followed statement by statement; nothing else runs meanwhile.
NextSteps ==
    \/ grow.pc = 0 /\ (pointer = 0 \/ has_room(length, capacity)) /\ PushBack
    \/ grow.pc = 0 /\ PopFront
    \/ grow.pc = 0 /\ PopBack
    \/ \E x \in Values : length < MaxLen /\ GrowAlloc(x)
    \/ GrowCopy
    \/ GrowWrite
    \/ GrowFree
    \/ GrowUpdate

SpecSteps == Init /\ [][NextSteps]_vars

\* The builds of SpecPlat: a narrow usize, element types of every size from
\* zero-sized up, with and without overflow checks.
Plats == [bits : {PlatBits}, size : 0..MaxSize, debug : BOOLEAN]

InitPlat == new /\ plat \in Plats

\* Only push_back is called, on every build of Plats, until a request brings
\* the program down.
PushPlat == ~last.crash /\ PushOnly

SpecPlat == InitPlat /\ [][PushPlat]_vars

\* ---------------------------------------------------------------- claims
\* C1: after any interleaving of push_back, pop_front and pop_back, for every
\* i < len() both get(i) and the indexing operator return the i-th element of
\* the abstract sequence (front-to-back logical order), also right after a
\* push_back that grew the block.
C1_GetIsLogicalOrder ==
    \A i \in 0..(length - 1) :
        /\ i < Len(abs)
        /\ get(i) = Some(abs[i + 1])
        /\ index(i) = [ret |-> Some(abs[i + 1]), panic |-> FALSE]

\* A push_back has just grown a wrapped window and elements are live.
C1_Witness ==
    /\ last.op = "push_back"
    /\ last.cap0 > 0
    /\ capacity = 2 * last.cap0
    /\ last.front0 # Some(0)
    /\ length = last.len0 + 1

\* The smallest of 0, 4, 8, 16, ... that is >= n.
SmallestCapacity(n) ==
    IF n = 0 THEN 0
    ELSE LET caps == {vec_capacity * 2 ^ k : k \in 0..n}
         IN  CHOOSE c \in caps : c >= n /\ \A d \in caps : d >= n => c <= d

\* C2: after exactly N push_back calls on a container made by new(), with no
\* pop, len() = N and capacity() is the smallest of 0, 4, 8, 16, ... >= N.
C2_PushesLenCapacity ==
    IsSome(pushes) =>
        /\ len = Unwrap(pushes)
        /\ capacity = SmallestCapacity(Unwrap(pushes))

\* Nine pushes: the block has been grown twice.
C2_Witness == pushes = Some(9) /\ length = 9 /\ capacity = 16

\* C3: FIFO. After push_back(x1), ..., push_back(xn) on an empty container,
\* n successive pop_front calls return Some(x1), ..., Some(xn) in that order
\* and the next pop_front returns None.
C3_Fifo ==
    fifo.phase = "pop_front" =>
        \A i \in 1..Len(fifo.rets) :
            fifo.rets[i] = IF i <= Len(fifo.pushed)
                           THEN Some(fifo.pushed[i])
                           ELSE None

\* Five pushes (one growth), five pop_front calls and one more.
C3_Witness ==
    /\ fifo.phase = "pop_front"
    /\ Len(fifo.pushed) = 5
    /\ Len(fifo.rets) = 6
    /\ capacity > vec_capacity

\* C4: LIFO. After push_back(x1), ..., push_back(xn) on an empty container,
\* n successive pop_back calls return Some(xn), ..., Some(x1) in that order
\* and the next pop_back returns None.
C4_Lifo ==
    fifo.phase = "pop_back" =>
        \A i \in 1..Len(fifo.rets) :
            fifo.rets[i] = IF i <= Len(fifo.pushed)
                           THEN Some(fifo.pushed[Len(fifo.pushed) + 1 - i])
                           ELSE None

\* Five pushes (one growth), five pop_back calls and one more.
C4_Witness ==
    /\ fifo.phase = "pop_back"
    /\ Len(fifo.pushed) = 5
    /\ Len(fifo.rets) = 6
    /\ capacity > vec_capacity

\* The push_back that the last call, a pop_back, directly followed.
undone == Unwrap(last.after)

\* C5 as stated: push_back(x) directly followed by pop_back() returns Some(x)
\* and leaves len() and capacity() at their values before the push.
C5_AsStated ==
    IsSome(last.after) =>
        /\ last.ret = undone.x
        /\ len = undone.len0
        /\ capacity = undone.cap0

\* C5 as amended: push_back(x) directly followed by pop_back() returns Some(x)
\* and leaves len() at its value before the push; capacity() is left at its
\* value after the push, which is the value before the push only when that
\* push did not allocate (allocated and length < capacity), and otherwise 4
\* (first push) or twice the value before the push (length = capacity).
C5_PushPopBack ==
    IsSome(last.after) =>
        /\ last.ret = undone.x
        /\ len = undone.len0
        /\ capacity = last.cap0
        /\ capacity = IF undone.cap0 = 0 THEN vec_capacity
                      ELSE IF undone.len0 < undone.cap0 THEN undone.cap0
                      ELSE 2 * undone.cap0

\* A pop_back directly after a push_back that doubled a full block.
C5_Witness ==
    /\ IsSome(last.after)
    /\ undone.cap0 > 0
    /\ undone.len0 = undone.cap0
    /\ IsSome(last.ret)

\* C6: no operation lowers capacity(), and only a push_back called with
\* length = capacity (the first push_back included) changes it.
C6_CapacityNeverShrinks ==
    [][/\ capacity' >= capacity
       /\ capacity' # capacity => last'.op = "push_back" /\ length = capacity]_vars

\* A pop has emptied a container whose block had been grown.
C6_Witness ==
    /\ last.op \in Pops
    /\ IsSome(last.ret)
    /\ length = 0
    /\ capacity = 2 * vec_capacity

\* The old block in logical order: segment [fr..cap) followed by [0..fr).
TailThenHead(block, fr, cap) ==
    [i \in 1..cap |-> IF i <= cap - fr THEN block[fr + i] ELSE block[i - (cap - fr)]]

\* C7: push_back(x) called with length = capacity > 0 and front > 0 doubles
\* capacity, sets front to 0, back to the old length, length to the old
\* length + 1, keeps the old elements at logical positions 0..old length-1
\* (tail segment then head segment, from slot 0 of the new block) and puts x
\* at logical position old length.
C7_WrappedGrowth ==
    [][(/\ last'.op = "push_back"
        /\ length = capacity
        /\ capacity > 0
        /\ IsSome(front)
        /\ Unwrap(front) > 0)
       => (/\ capacity' = 2 * capacity
           /\ front' = Some(0)
           /\ back' = Some(length)
           /\ length' = length + 1
           /\ \A i \in 0..(length - 1) :
                 /\ get(i)' = get(i)
                 /\ mem'[i + 1] = TailThenHead(mem, Unwrap(front), capacity)[i + 1]
           /\ \A n \in {length} : get(n)' = last'.x)]_vars

\* The spec's example: capacity 4, full, front at slot 2, then one more push.
C7_Witness ==
    /\ last.op = "push_back"
    /\ last.cap0 = vec_capacity
    /\ last.len0 = vec_capacity
    /\ last.front0 = Some(2)
    /\ last.back0 = Some(1)
    /\ capacity = 2 * vec_capacity
    /\ length = vec_capacity + 1

\* C8: after pop_back is repeated on a non-empty container until length = 0
\* capacity() is unchanged, and the next push_back(x) requests no allocation,
\* leaves capacity() unchanged and makes x the single live element.
C8_DrainByPopBack ==
    drain.kind = "pop_back" =>
        /\ drain.stage = "drained" => length = 0 /\ capacity = drain.cap0
        /\ drain.stage = "refilled" =>
              /\ drain.allocs = 0
              /\ capacity = drain.cap0
              /\ len = 1
              /\ get(0) = drain.x

\* A grown container drained by pop_back and pushed to again.
C8_Witness ==
    /\ drain.kind = "pop_back"
    /\ drain.stage = "refilled"
    /\ drain.cap0 = 2 * vec_capacity

\* C9: after pop_front is repeated on a non-empty container until length = 0
\* capacity() is unchanged and a further pop_front returns None; a following
\* push_back(x) requests no allocation, writes only the slot read as logical
\* position 0 and makes x the single live element; the next pop_front returns
\* Some(x) and leaves len() = 0 and capacity() unchanged.
C9_DrainByPopFront ==
    /\ drain.kind = "pop_front" =>
          /\ drain.stage = "drained" =>
                /\ length = 0
                /\ capacity = drain.cap0
                /\ IsSome(drain.extra) => Unwrap(drain.extra) = None
          /\ drain.stage = "refilled" =>
                /\ drain.allocs = 0
                /\ capacity = drain.cap0
                /\ len = 1
                /\ get(0) = drain.x
                /\ IsSome(front)
                /\ drain.wslot = Some(get_slot(Unwrap(front), 0, capacity))
    /\ IsSome(drain.reread) =>
          LET r == Unwrap(drain.reread)
          IN  (r.kind = "pop_front" /\ r.op = "pop_front") =>
                  /\ r.ret = r.x
                  /\ len = 0
                  /\ capacity = r.cap0

\* Drained by pop_front with the cursors left at a slot other than 0, a
\* further pop_front, a push_back and the pop_front that reads it back.
C9_Witness ==
    /\ IsSome(drain.reread)
    /\ Unwrap(drain.reread).kind = "pop_front"
    /\ Unwrap(drain.reread).op = "pop_front"
    /\ IsSome(Unwrap(drain.reread).extra)
    /\ last.front0 # Some(0)
    /\ length = 0

\* C10: push_back(x) called on an allocated container with length < capacity
\* allocates and frees nothing, leaves capacity() unchanged, writes x at slot
\* (back + 1) mod capacity (slot 0 if back is None) and nowhere else, raises
\* length by 1 and keeps the live elements at their logical positions. In
\* particular four pushes on an empty container give len() = 4 (capacity 4
\* from new()), pop_front returns the first, and the next push_back(E) keeps
\* capacity() = 4 and makes get(3) = E.
C10_PushNoGrowth ==
    [][/\ (last'.op = "push_back" /\ pointer # 0 /\ length < capacity) =>
             LET slot == IF back = None THEN 0 ELSE (Unwrap(back) + 1) % capacity
             IN  /\ last'.allocs = 0
                 /\ last'.frees = 0
                 /\ pointer' = pointer
                 /\ capacity' = capacity
                 /\ last'.wslot = Some(slot)
                 /\ mem' = [mem EXCEPT ![slot + 1] = Unwrap(last'.x)]
                 /\ length' = length + 1
                 /\ \A i \in 0..(length - 1) : get(i)' = get(i)
                 /\ \A n \in {length} : get(n)' = last'.x
       /\ pushes = Some(4) => len = 4 /\ capacity = 4
       /\ (fifo.phase = "push" /\ Len(fifo.pushed) = 4) => len = 4
       /\ (/\ fifo.phase = "pop_front"
           /\ Len(fifo.pushed) = 4
           /\ Len(fifo.rets) = 1
           /\ capacity = 4) =>
             /\ fifo.rets[1] = Some(fifo.pushed[1])
             /\ last'.op = "push_back" =>
                   /\ capacity' = 4
                   /\ get(3)' = last'.x]_vars

\* The scenario's last step: capacity 4, live slots 1..3, E written at slot 0.
C10_Witness ==
    /\ last.op = "push_back"
    /\ last.cap0 = 4
    /\ last.len0 = 3
    /\ last.front0 = Some(1)
    /\ last.back0 = Some(3)
    /\ last.wslot = Some(0)
    /\ capacity = 4
    /\ length = 4

\* C11: in every state with length = 0 (never allocated, drained by pop_front
\* or drained by pop_back) pop_front and pop_back return None and leave
\* length, capacity, front, back and the block unchanged.
C11_PopOnEmpty ==
    [][(length = 0 /\ last'.op \in Pops) =>
           /\ last'.ret = None
           /\ ~last'.panic
           /\ last'.allocs = 0
           /\ last'.frees = 0
           /\ UNCHANGED <<pointer, front, back, length, capacity, mem>>]_vars

\* pop_back has returned None on a container that pop_front had drained (its
\* cursors are still present).
C11_Witness ==
    /\ last.op = "pop_back"
    /\ last.len0 = 0
    /\ IsSome(last.front0)
    /\ last.ret = None
    /\ length = 0
    /\ front = last.front0

\* Indices tried by the claims on lookups: every valid one and some beyond.
Indices == 0..(MaxLen + 2)

\* C12: get(i) returns an element iff i < length and None otherwise, without
\* changing state; v[i] returns what get(i) returns when i < length and
\* panics exactly when i >= length, also on a never-allocated container.
C12_Lookup ==
    /\ [](\A i \in Indices :
             /\ IsSome(get(i)) <=> i < length
             /\ index(i).panic <=> i >= length
             /\ i < length => index(i).ret = get(i))
    /\ [][last'.op \in {"get", "index"} =>
             /\ UNCHANGED <<pointer, front, back, length, capacity, mem>>
             /\ \A i \in {Unwrap(last'.x)} :
                   /\ last'.ret = get(i)
                   /\ IsSome(last'.ret) <=> i < length
                   /\ last'.panic <=> (last'.op = "index" /\ i >= length)]_vars

\* v[i] has panicked at i = length on a container holding elements.
C12_Witness ==
    /\ last.op = "index"
    /\ last.x = Some(length)
    /\ length > 0
    /\ last.panic
    /\ last.ret = None

\* The capacities reached by doubling from the first allocation.
Doublings == {vec_capacity * 2 ^ k : k \in 0..MaxLen}

\* C17: in every state reachable by push_back, pop_front and pop_back,
\* 0 <= length <= capacity, capacity is 0 or 4 * 2^k, capacity = 0 iff no
\* block is allocated, and every present cursor is < capacity.
C17_SizeInvariant ==
    /\ 0 <= length
    /\ length <= capacity
    /\ capacity = 0 \/ capacity \in Doublings
    /\ capacity = 0 <=> pointer = 0
    /\ capacity = 0 <=> heap.live = {}
    /\ Len(mem) = capacity
    /\ IsSome(front) => Unwrap(front) < capacity
    /\ IsSome(back) => Unwrap(back) < capacity

\* A grown block, full, with a wrapped window: back is below front.
C17_Witness ==
    /\ capacity = 2 * vec_capacity
    /\ length = MaxLen
    /\ IsSome(front)
    /\ IsSome(back)
    /\ Unwrap(back) < Unwrap(front)

\* C18: front and back are both Some or both None, and None only when
\* length = 0; a pop_back that brings length to 0 resets both to None, a
\* pop_front that brings length to 0 leaves both Some, front advanced by one
\* modulo capacity and back untouched.
C18_CursorPresence ==
    /\ IsSome(front) <=> IsSome(back)
    /\ front = None => length = 0
    /\ (last.op = "pop_back" /\ last.len0 = 1) =>
          /\ length = 0
          /\ front = None
          /\ back = None
    /\ (last.op = "pop_front" /\ last.len0 = 1) =>
          /\ length = 0
          /\ IsSome(last.front0)
          /\ front = Some((Unwrap(last.front0) + 1) % capacity)
          /\ IsSome(back)
          /\ back = last.back0

\* pop_front has just emptied the container and the cursors are still there.
C18_Witness ==
    /\ last.op = "pop_front"
    /\ last.len0 = 1
    /\ length = 0
    /\ IsSome(front)
    /\ IsSome(back)

\* The slots walked from front: logical position i is slot (front + i) mod
\* capacity.
Window == {(Unwrap(front) + i) % capacity : i \in 0..(length - 1)}

\* C20: when the cursors are present back = (front + length + capacity - 1)
\* mod capacity; for length > 0 the live elements occupy exactly the length
\* slots front, front + 1, ..., back modulo capacity, and for length = 0
\* front = (back + 1) mod capacity, so that the next push_back writes the slot
\* front points to.
C20_WindowRelation ==
    /\ (IsSome(front) /\ IsSome(back)) =>
          /\ Unwrap(back) = (Unwrap(front) + length + capacity - 1) % capacity
          /\ Cardinality(Window) = length
          /\ length > 0 =>
                /\ Unwrap(front) \in Window
                /\ Unwrap(back) \in Window
                /\ \A i \in 0..(length - 1) :
                      /\ i < Len(abs)
                      /\ Read(mem, (Unwrap(front) + i) % capacity) = abs[i + 1]
          /\ length = 0 =>
                /\ Unwrap(front) = (Unwrap(back) + 1) % capacity
                /\ next_index(back, capacity) = Unwrap(front)
    /\ (last.op = "push_back" /\ last.len0 = 0 /\ IsSome(last.front0)) =>
          /\ last.wslot = last.front0
          /\ front = last.front0

\* A push_back on a container that pop_front had drained, its cursors left
\* at a slot other than 0.
C20_Witness ==
    /\ last.op = "push_back"
    /\ last.len0 = 0
    /\ IsSome(last.front0)
    /\ last.front0 # Some(0)
    /\ length = 1

\* C13: for a zero-sized element type push_back is fatal in every state of
\* the container, before any allocation request and before any change to
\* length, capacity, front or back.
C13_ZeroSized ==
    /\ [](plat.size = 0 =>
             /\ pointer = 0
             /\ length = 0
             /\ capacity = 0
             /\ front = None
             /\ back = None
             /\ heap = NoHeap)
    /\ [][(plat.size = 0 /\ last'.op = "push_back") =>
             /\ last'.panic
             /\ ~last'.crash
             /\ last'.allocs = 0
             /\ last'.bytes = None
             /\ UNCHANGED <<prog, heap>>]_vars

\* push_back has been called twice for a zero-sized type.
C13_Witness ==
    /\ plat.size = 0
    /\ last.op = "push_back"
    /\ last.panic
    /\ fifo = FifoOff
    /\ length = 0

\* C14: with a usize of w bits and size_of::<T>() = s > 0, a push_back on a
\* full block (length = capacity) is fatal whenever 2 * capacity * s bytes
\* exceeds isize::MAX and otherwise requests exactly 2 * capacity * s bytes;
\* no request has a wrapped or over-limit size. Stated for blocks that were
\* themselves validly requested (capacity * s <= isize::MAX).
C14_AsStated ==
    (/\ last.op = "push_back"
     /\ plat.size > 0
     /\ last.cap0 > 0
     /\ last.len0 = last.cap0
     /\ plat.size * last.cap0 <= IsizeMax) =>
        LET need == 2 * last.cap0 * plat.size
        IN  /\ need > IsizeMax => (last.panic /\ last.allocs = 0)
            /\ need <= IsizeMax => (~last.panic /\ last.bytes = Some(need))
            /\ IsSome(last.bytes) =>
                  /\ last.bytes = last.wanted
                  /\ Unwrap(last.bytes) <= IsizeMax

\* C15: over new(), any operations, drop: no block is allocated before the
\* first push_back, exactly one block is owned whenever capacity > 0, every
\* block allocated is freed exactly once, and no free is issued for a block
\* that was never allocated or is already freed; dropping a container that
\* never allocated issues no free.
C15_AsStated ==
    /\ []((last.op # "drop" /\ capacity > 0) => heap.live = {pointer})
    /\ []((last.op # "drop" /\ capacity = 0) => heap.live = {})
    /\ [](heap.live \cap heap.freed = {})
    /\ [](last.op = "drop" => heap.live = {})
    /\ [](heap.bad = {})
    /\ []((last.op = "drop" /\ last.cap0 = 0) => last.frees = 0)
    /\ [][heap'.live \ heap.live # {} => last'.op = "push_back"]_vars

\* One cell per element of the abstract sequence, in its order, then the
\* placeholder cells that fill the block.
RECURSIVE CellsOf(_, _)
CellsOf(how, a) ==
    IF a = <<>> THEN <<>>
    ELSE <<LEFT, fmt(how, Head(a)), RIGHT>> \o CellsOf(how, Tail(a))

Placeholders == [i \in 1..(3 * (capacity - length)) |-> <<LEFT, PHI, RIGHT>>[((i - 1) % 3) + 1]]

Cells(how) == CellsOf(how, abs) \o Placeholders

LengthCapacity == <<"Length = ", length, " Capacity = ", capacity, " -> ">>

\* C16 as stated: the Display rendering of a never-allocated container is the
\* single placeholder, of an allocated one exactly capacity cells (the live
\* elements in logical order, then placeholder cells); the Debug rendering is
\* the same cells prefixed by the current length and capacity.
C16_AsStated ==
    /\ display_fmt = IF pointer = 0 THEN <<PHI>> ELSE Cells("{}")
    /\ debug_fmt = LengthCapacity \o display_fmt

\* C16: the Display rendering of a never-allocated container is the single
\* placeholder, of an allocated one exactly capacity cells, the length live
\* elements in logical order and then capacity - length placeholder cells,
\* whatever the wraparound and whichever pop drained the container. The Debug
\* rendering of a never-allocated container is the single placeholder too,
\* with no length and capacity; of an allocated one it is the length and
\* capacity followed by the same cells with each element printed by T's Debug.
C16_Rendering ==
    /\ display_fmt = IF pointer = 0 THEN <<PHI>> ELSE Cells("{}")
    /\ debug_fmt = IF pointer = 0 THEN <<PHI>> ELSE LengthCapacity \o Cells("{:?}")
    /\ pointer # 0 => Len(display_fmt) = 3 * capacity
    /\ last.op = "display" => last.ret = Some(display_fmt)
    /\ last.op = "debug" => last.ret = Some(debug_fmt)

\* A wrapped window with a free slot has been rendered by Debug.
C16_Witness ==
    /\ last.op = "debug"
    /\ IsSome(front)
    /\ IsSome(back)
    /\ Unwrap(back) < Unwrap(front)
    /\ length < capacity
    /\ Len(Unwrap(last.ret)) = 5 + 3 * capacity

\* The new block holds every old live element, in logical order from
\* offset 0.
Populated ==
    /\ Len(grow.raw) = 2 * capacity
    /\ \A i \in 0..(length - 1) : Read(grow.raw, i) = abs[i + 1]

\* C19: a push_back that grows allocates the new block of doubled size,
\* copies all old live elements into it from offset 0, writes the new element
\* at offset old length, frees the old block and then updates pointer, front,
\* back, length and capacity, in that order; the old block is never freed
\* before the new block holds every old live element, and no element is read
\* from the old block after it is freed.
C19_GrowthOrder ==
    /\ [](grow.pc >= 1 => (pointer + 1) \in heap.live /\ Len(grow.raw) = 2 * capacity)
    /\ [](grow.pc \in {1, 2, 3} => pointer \in heap.live)
    /\ [](grow.pc >= 2 => Populated)
    /\ [](grow.pc >= 3 => Read(grow.raw, length) = Unwrap(grow.x))
    /\ [](grow.pc >= 4 => pointer \in heap.freed)
    /\ []((grow.pc >= 1 /\ pointer \notin heap.live) => Populated)
    /\ [](~grow.stale)
    /\ [](heap.bad = {})
    /\ [][grow.pc > 0 =>
             /\ grow'.pc = IF grow.pc = 4 THEN 0 ELSE grow.pc + 1
             /\ grow.pc < 4 => UNCHANGED prog
             /\ grow.pc # 3 => UNCHANGED heap
             /\ grow.pc = 4 =>
                   /\ pointer' = pointer + 1
                   /\ mem' = grow.raw
                   /\ front' = Some(0)
                   /\ back' = Some(length)
                   /\ length' = length + 1
                   /\ capacity' = 2 * capacity
                   /\ abs' = Append(abs, Unwrap(grow.x))
                   /\ heap'.live = {pointer'}]_vars

\* The old block, its window wrapped, has been freed and the fields still
\* name it.
C19_Witness ==
    /\ grow.pc = 4
    /\ front # Some(0)
    /\ pointer \in heap.freed
    /\ capacity = vec_capacity
    /\ Len(grow.raw) = 2 * vec_capacity

\* What the abstract pops return: the head, the last, or None if empty.
abs_pop_front(a) == IF a = <<>> THEN None ELSE Some(Head(a))
abs_pop_back(a) == IF a = <<>> THEN None ELSE Some(a[Len(a)])

\* The slots of the live window; none when the cursors are absent.
LiveSlots == IF IsSome(front) THEN Window ELSE {}

\* C21: run side by side with the abstract sequence, in every interleaving
\* of push_back, pop_front and pop_back, front and back pops mixed and the
\* block growing at any point, each pop returns what the abstract pop returns
\* and len() is the abstract length; a pop that returns an element reads it
\* from a slot of the live window and removes that slot from the window, so
\* that no element is returned twice and no slot outside the window is read.
C21_DequeRefinement ==
    /\ [](len = Len(abs))
    /\ [](Cardinality(LiveSlots) = Len(abs))
    /\ [][last'.op = "pop_front" =>
             /\ last'.ret = abs_pop_front(abs)
             /\ abs = IF IsSome(last'.ret) THEN last'.ret \o abs' ELSE abs']_vars
    /\ [][last'.op = "pop_back" =>
             /\ last'.ret = abs_pop_back(abs)
             /\ abs = IF IsSome(last'.ret) THEN abs' \o last'.ret ELSE abs']_vars
    /\ [][last'.op \in Pops =>
             IF IsSome(last'.ret)
             THEN /\ IsSome(last'.rslot)
                  /\ Unwrap(last'.rslot) \in LiveSlots
                  /\ Unwrap(last'.rslot) \notin LiveSlots'
                  /\ last'.ret = Some(Read(mem, Unwrap(last'.rslot)))
             ELSE last'.rslot = None]_vars
    /\ [][(last'.op = "push_back" /\ grow'.pc = 0) =>
             /\ abs' = Append(abs, Unwrap(last'.x))
             /\ LiveSlots' = IF capacity' = capacity
                              THEN LiveSlots \cup {Unwrap(last'.wslot)}
                              ELSE 0..(length' - 1)]_vars

\* Front and back pops mixed after a growth: a pop_back has just followed a
\* pop_front on a grown block and elements are still live.
C21_Witness ==
    /\ last.op = "pop_back"
    /\ IsSome(last.ret)
    /\ last.front0 # Some(0)
    /\ capacity = 2 * vec_capacity
    /\ length > 0

====
